---- MODULE Spec2Model ----
(***************************************************************************)
(* Raster cache-and-render pipeline of the Ikuta Ryokuchi heatmap front    *)
(* end (src/frontend/app.js, src/frontend/renderer.js).                    *)
(*                                                                         *)
(* The browser runs one cooperative thread.  A macrotask is a user event   *)
(* or the completion of a network fetch; the continuations of settled      *)
(* promises (await, then) are microtasks and are all run before the next   *)
(* macrotask starts.  Every macrotask action below is therefore guarded by *)
(* ~MicrotaskReady, and every continuation is an action of its own.        *)
(***************************************************************************)
EXTENDS Integers, Sequences, FiniteSets, TLC

\* ------------------------------------------------------------------------
\* Bounds of the model
\* ------------------------------------------------------------------------
\* state.totalMonths of the application specification
TotalMonths == 3
\* state.totalMonths of the pixel-sampling specification (two waves of 8)
SamplerMonths == 9
\* number of user events (slider, indicator, range, click, mode) per behaviour
MaxEvents == 2
\* number of user events (click, mode) of the pixel-sampling specification
MaxSamplerEvents == 2
\* number of months of the calendar specification (more than two years)
CalendarMonths == 26
\* number of user events (indicator, range) of the specification
\* of a sampling run that outlives an indicator switch
MaxRecolorEvents == 2

\* ------------------------------------------------------------------------
\* Program constants
\* ------------------------------------------------------------------------
START_YEAR == 2016
START_MONTH == 1
PREFETCH_RADIUS == 1
CONCURRENCY == 8

\* the indicators of the radio buttons that the model exercises
Indicators == {"ndvi", "lst"}

\* CONFIG.BBOX in units of 1e-4 degree
BBOX == [south |-> 355940, west |-> 1395430, north |-> 356260, east |-> 1395820]

\* COLORMAPS[indicator].min / .max in units of 0.1
DefaultRange(indicator) == IF indicator = "ndvi" THEN <<-2, 9>> ELSE <<100, 450>>

\* COLORMAPS[indicator].palette
Palette(indicator) ==
    IF indicator = "ndvi"
    THEN << <<165, 0, 38>>, <<215, 48, 39>>, <<244, 109, 67>>, <<253, 174, 97>>,
            <<254, 224, 139>>, <<255, 255, 191>>, <<217, 239, 139>>, <<166, 217, 106>>,
            <<102, 189, 99>>, <<26, 152, 80>>, <<0, 104, 55>> >>
    ELSE << <<49, 54, 149>>, <<69, 117, 180>>, <<116, 173, 209>>, <<171, 217, 233>>,
            <<224, 243, 248>>, <<255, 255, 191>>, <<254, 224, 144>>, <<253, 174, 97>>,
            <<244, 109, 67>>, <<215, 48, 39>>, <<165, 0, 38>> >>

\* ------------------------------------------------------------------------
\* Values
\* ------------------------------------------------------------------------
\* Float32 samples: 1..9 are finite, the others are the non-finite values
NaN == 901
PosInf == 902
\* reading a typed array outside its length
Undefined == 903
NegInf == 904
\* the JavaScript null of a values[] slot
NullValue == 900

isFinite(v) == v \notin {NaN, PosInf, NegInf, Undefined}

\* what the server holds for one raster URL: two rasters of different size,
\* nothing (404), or a raster whose canvas cannot be created (the part of
\* loadAndRender after its try block throws)
GridA == [width |-> 2, height |-> 2, data |-> <<1, NaN, 3, 4>>]
GridB == [width |-> 1, height |-> 1, data |-> <<7>>]
NoGrid == [width |-> 0, height |-> 0, data |-> <<>>]
OutcomeCycle == <<"gridA", "gridA", "missing", "gridB", "bad">>

\* the click positions: centre of the box, its north-east corner, a point
\* west of the box
Points == {[lat |-> 356100, lng |-> 1395625], [lat |-> 356260, lng |-> 1395820], [lat |-> 356100, lng |-> 1395400]}
NoPoint == [lat |-> 0, lng |-> 0]

\* parseFloat of the two legend inputs
RangeInputs == {NaN, 0, 5}

Min(a, b) == IF a < b THEN a ELSE b
Max(a, b) == IF a > b THEN a ELSE b

\* Math.round(num / den) for den > 0: the nearest integer, halves upwards
MathRound(num, den) == (2 * num + den) \div (2 * den)

\* palette[j] of a JavaScript array: undefined (here <<>>) outside 0..length-1
PaletteAt(palette, j) == IF j \in 0..(Len(palette) - 1) THEN palette[j + 1] ELSE <<>>

valueToRGB_NoIndexClamp(value, colormap) ==
    IF ~isFinite(value) THEN [kind |-> "null", rgb |-> <<>>]
    ELSE LET den == colormap.max - colormap.min
             n   == Len(colormap.palette) - 1
             tn  == Max(0, Min(den, value - colormap.min)) * n
             i   == tn \div den
             f   == tn - i * den
             c0  == PaletteAt(colormap.palette, Min(i, n))
             c1  == PaletteAt(colormap.palette, i + 1)
         IN  IF c0 = <<>> \/ c1 = <<>> THEN [kind |-> "throws", rgb |-> <<>>]
             ELSE [kind |-> "rgb", rgb |-> [k \in 1..3 |-> MathRound(c0[k] * den + (c1[k] - c0[k]) * f, den)]]

\* valueToRGB(value, colormap): null for a non-finite sample, else the
\* colour; t * n is kept as the fraction tn / den with den = max - min, so
\* i = floor(tn / den) and f = (tn - i * den) / den; reading [0] of an
\* undefined palette entry throws
valueToRGB(value, colormap) ==
    IF ~isFinite(value) THEN [kind |-> "null", rgb |-> <<>>]
    ELSE LET den == colormap.max - colormap.min
             n   == Len(colormap.palette) - 1
             tn  == Max(0, Min(den, value - colormap.min)) * n
             i   == tn \div den
             f   == tn - i * den
             c0  == PaletteAt(colormap.palette, Min(i, n))
             c1  == PaletteAt(colormap.palette, Min(i + 1, n))
         IN  IF c0 = <<>> \/ c1 = <<>> THEN [kind |-> "throws", rgb |-> <<>>]
             ELSE [kind |-> "rgb", rgb |-> [k \in 1..3 |-> MathRound(c0[k] * den + (c1[k] - c0[k]) * f, den)]]

\* ------------------------------------------------------------------------
\* State
\* ------------------------------------------------------------------------
VARIABLES
    started,        \* initApp has run
    indicator,      \* state.indicator
    monthIndex,     \* state.monthIndex
    totalMonths,    \* state.totalMonths
    selectedLatLng, \* state.selectedLatLng
    chartMode,      \* state.chartMode
    cogMeta,        \* state.cogMeta
    cogOverlay,     \* state.cogOverlay
    mapLayers,      \* image overlays attached to the Leaflet map
    colorRange,     \* COLORMAPS[indicator].min/.max
    errorLabel,     \* text of the legend's error label
    cogCache,       \* the Map cogCache: key -> promise id
    promises,       \* every promise stored in cogCache, by id
    renders,        \* renderCurrentMonth calls suspended at their await
    run,            \* the collectPixelTimeseries call
    poolSize,       \* CONCURRENCY of the run
    serverShift,    \* which rasters the server holds
    events,         \* user events so far
    maxEvents,      \* user events allowed
    loadCalls,      \* RENDERER.loadAndRender calls per key since the last clear
    repeated,       \* the key was looked up more than once since the last clear
    observed,       \* <<handle, epoch>> returned per key since the last clear
    epoch,          \* invalidateCogCache calls since the last clear
    lastRender,     \* the renderCurrentMonth call that resumed last
    renderErrors    \* renderCurrentMonth calls that ended with an exception

vars == <<started, indicator, monthIndex, totalMonths, selectedLatLng, chartMode, cogMeta, cogOverlay, mapLayers, colorRange, errorLabel, cogCache, promises, renders, run, poolSize, serverShift, events, maxEvents, loadCalls, repeated, observed, epoch, lastRender, renderErrors>>

\* ------------------------------------------------------------------------
\* URL helper and cache key (app.js 56-88)
\* ------------------------------------------------------------------------
monthIndexToYYYYMM_ZeroBased(index) ==
    LET total == START_YEAR * 12 + (START_MONTH - 1) + index
    IN  [year |-> total \div 12, month |-> total % 12]

monthIndexToYYYYMM(index) ==
    LET total == START_YEAR * 12 + (START_MONTH - 1) + index
    IN  [year |-> total \div 12, month |-> (total % 12) + 1]

\* String(year): the decimal digits of a non-negative integer
RECURSIVE DigitsOf(_)
DigitsOf(n) == IF n < 10 THEN <<n>> ELSE DigitsOf(n \div 10) \o <<n % 10>>

\* String(month).padStart(2, "0")
PadStart2(digits) == IF Len(digits) < 2 THEN <<0>> \o digits ELSE digits

\* the template literal `${indicator}_${yyyy}_${mm}` as a sequence of the
\* indicator name, separators and digits
KeyString(ind, index) ==
    LET ym == monthIndexToYYYYMM(index)
    IN  <<ind, "_">> \o DigitsOf(ym.year) \o <<"_">> \o PadStart2(DigitsOf(ym.month))

\* updateMissingIndicator: the month index of a summary row (app.js 614)
rowIndex(year, month) == (year - START_YEAR) * 12 + (month - START_MONTH)

getCogCacheKey(ind, index) ==
    LET ym == monthIndexToYYYYMM(index)
    IN  <<ind, ym.year, ym.month>>

KeySpace == {getCogCacheKey(i, m) : i \in Indicators, m \in 0..(totalMonths - 1)}

\* ------------------------------------------------------------------------
\* The server and RENDERER.loadAndRender (renderer.js 116-155)
\* ------------------------------------------------------------------------
IndOffset(ind) == IF ind = "ndvi" THEN 0 ELSE 2

ServerOutcome(ind, index) ==
    OutcomeCycle[((index + serverShift + IndOffset(ind)) % Len(OutcomeCycle)) + 1]

\* the drawable image: the grid painted with one indicator's range
Composite(data, ind, range) == [data |-> data, indicator |-> ind, range |-> range]

NullResult == [kind |-> "null", data |-> <<>>, width |-> 0, height |-> 0, canvas |-> Composite(<<>>, "", <<0, 0>>), indicator |-> ""]

RasterResult(grid, ind, range) ==
    [kind |-> "raster", data |-> grid.data, width |-> grid.width, height |-> grid.height, canvas |-> Composite(grid.data, ind, range), indicator |-> ""]

loadAndRender_Throws(ind, index, ranges) ==
    LET o == ServerOutcome(ind, index)
    IN  CASE o = "missing" -> [st |-> "rejected", val |-> NullResult]
          [] o = "bad"     -> [st |-> "rejected", val |-> NullResult]
          [] o = "gridA"   -> [st |-> "fulfilled", val |-> RasterResult(GridA, ind, ranges[ind])]
          [] OTHER         -> [st |-> "fulfilled", val |-> RasterResult(GridB, ind, ranges[ind])]

\* the settled state of the promise of loadAndRender(url, indicator)
loadAndRender(ind, index, ranges) ==
    LET o == ServerOutcome(ind, index)
    IN  CASE o = "missing" -> [st |-> "fulfilled", val |-> NullResult]
          [] o = "bad"     -> [st |-> "rejected", val |-> NullResult]
          [] o = "gridA"   -> [st |-> "fulfilled", val |-> RasterResult(GridA, ind, ranges[ind])]
          [] OTHER         -> [st |-> "fulfilled", val |-> RasterResult(GridB, ind, ranges[ind])]

\* ------------------------------------------------------------------------
\* Promises
\* ------------------------------------------------------------------------
\* A root promise (parent = 0) is the async wrapper around loadAndRender
\* that fetchAndRenderCog stores; a chained promise is promise.then(...) of
\* invalidateCogCache.  early records that the parent was pending when the
\* callback was chained.
NewFetch(ind, index, key) ==
    [key |-> key, ind |-> ind, idx |-> index, parent |-> 0, st |-> "pending", val |-> NullResult, early |-> FALSE]

NewThen(key, parent, parentPending) ==
    [key |-> key, ind |-> key[1], idx |-> 0, parent |-> parent, st |-> "pending", val |-> NullResult, early |-> parentPending]

Settled(proms, h) == proms[h].st # "pending"

RECURSIVE Root(_, _)
Root(proms, h) == IF proms[h].parent = 0 THEN h ELSE Root(proms, proms[h].parent)

\* ------------------------------------------------------------------------
\* Cache store (app.js 90-100)
\* ------------------------------------------------------------------------
\* The cache-related variables travel through one handler as a record.
Store ==
    [cache |-> cogCache, proms |-> promises, calls |-> loadCalls, rep |-> repeated, obs |-> observed, epoch |-> epoch, ret |-> 0]

Put(cache, key, h) == [k \in (DOMAIN cache) \cup {key} |-> IF k = key THEN h ELSE cache[k]]

CacheMiss_Always(cache, key) == TRUE

\* !cogCache.has(key)
CacheMiss(cache, key) == key \notin DOMAIN cache

fetchAndRenderCog_LateInsert(s, ind, index) ==
    LET key  == getCogCacheKey(ind, index)
        miss == CacheMiss(s.cache, key)
        s1   == IF miss
                THEN [s EXCEPT !.proms = Append(@, NewFetch(ind, index, key)),
                               !.calls[key] = @ + 1]
                ELSE s
        h    == IF miss THEN Len(s1.proms) ELSE s1.cache[key]
    IN  [s1 EXCEPT !.rep[key] = (@ \/ s1.obs[key] # {}),
                   !.obs[key] = @ \cup {<<h, s1.epoch>>},
                   !.ret = h]

\* fetchAndRenderCog(indicator, index); ret is the promise cogCache.get(key)
fetchAndRenderCog(s, ind, index) ==
    LET key == getCogCacheKey(ind, index)
        s1  == IF CacheMiss(s.cache, key)
               THEN [s EXCEPT !.cache = Put(@, key, Len(s.proms) + 1),
                              !.proms = Append(@, NewFetch(ind, index, key)),
                              !.calls[key] = @ + 1]
               ELSE s
        h   == s1.cache[key]
    IN  [s1 EXCEPT !.rep[key] = (@ \/ s1.obs[key] # {}),
                   !.obs[key] = @ \cup {<<h, s1.epoch>>},
                   !.ret = h]

clearCache_Keep(s) == s

\* cogCache.clear()
clearCache(s) ==
    [s EXCEPT !.cache = <<>>,
              !.calls = [k \in DOMAIN s.calls |-> 0],
              !.rep = [k \in DOMAIN s.rep |-> FALSE],
              !.obs = [k \in DOMAIN s.obs |-> {}],
              !.epoch = 0]

\* ------------------------------------------------------------------------
\* Range invalidation (app.js 345-354)
\* ------------------------------------------------------------------------
\* [...cogCache.entries()]: the keys in insertion order.  An entry keeps its
\* position when it is set again, and handles are numbered in the order of
\* their creation, so insertion order is the order of the current handles.
RECURSIVE Entries(_)
Entries(cache) ==
    IF DOMAIN cache = {} THEN <<>>
    ELSE LET k == CHOOSE x \in DOMAIN cache : \A y \in DOMAIN cache : cache[x] <= cache[y]
         IN  <<k>> \o Entries([y \in (DOMAIN cache) \ {k} |-> cache[y]])

InvalidateEntry_Skip(s, key) == s

InvalidateEntry_Delete(s, key) == [s EXCEPT !.cache = [k \in (DOMAIN s.cache) \ {key} |-> s.cache[k]]]

\* cogCache.set(key, promise.then(...)) for one snapshot entry
InvalidateEntry(s, key) ==
    LET p == s.cache[key]
    IN  [s EXCEPT !.cache = Put(@, key, Len(s.proms) + 1),
                  !.proms = Append(@, NewThen(key, p, ~Settled(s.proms, p)))]

RECURSIVE InvalidateAll_OnlyCurrent(_, _)
InvalidateAll_OnlyCurrent(s, keys) ==
    IF keys = <<>> THEN s
    ELSE InvalidateAll_OnlyCurrent(IF Head(keys)[1] = indicator THEN InvalidateEntry(s, Head(keys)) ELSE s, Tail(keys))

\* for (const [key, promise] of entries): every entry of the snapshot
RECURSIVE InvalidateAll(_, _)
InvalidateAll(s, keys) ==
    IF keys = <<>> THEN s ELSE InvalidateAll(InvalidateEntry(s, Head(keys)), Tail(keys))

invalidateCogCache(s) ==
    LET s1 == InvalidateAll(s, Entries(s.cache))
    IN  [s1 EXCEPT !.epoch = @ + 1]

RerenderArg_NoData(result, ind) == [result EXCEPT !.indicator = ind, !.data = <<>>, !.width = 0, !.height = 0]

\* { ...result, indicator }
RerenderArg(result, ind) == [result EXCEPT !.indicator = ind]

\* RENDERER.rerender: a new display image from the grid and the indicator's
\* current range; the grid is left alone
rerender(arg, ranges) ==
    [arg EXCEPT !.canvas = Composite(arg.data, arg.indicator, ranges[arg.indicator])]

ThenOutcome_NoNullTest(parent, ind, ranges) ==
    IF parent.st = "rejected" THEN [st |-> "rejected", val |-> NullResult]
    ELSE [st |-> "fulfilled", val |-> rerender(RerenderArg(parent.val, ind), ranges)]

\* the settled state of promise.then((result) => ...) once promise settled
ThenOutcome(parent, ind, ranges) ==
    IF parent.st = "rejected" THEN [st |-> "rejected", val |-> NullResult]
    ELSE IF parent.val.kind = "null" THEN [st |-> "fulfilled", val |-> NullResult]
    ELSE [st |-> "fulfilled", val |-> rerender(RerenderArg(parent.val, ind), ranges)]

\* ------------------------------------------------------------------------
\* Pixel sampling helpers (app.js 262-285)
\* ------------------------------------------------------------------------
NoMeta == [set |-> FALSE, width |-> 0, height |-> 0]

latLngToPixel_NoBoundsTest(lat, lng, meta) ==
    LET col == ((lng - BBOX.west) * meta.width) \div (BBOX.east - BBOX.west)
        row == ((BBOX.north - lat) * meta.height) \div (BBOX.north - BBOX.south)
    IN  [out |-> FALSE,
         col |-> Max(0, Min(col, meta.width - 1)),
         row |-> Max(0, Min(row, meta.height - 1))]

latLngToPixel_Unclamped(lat, lng, meta) ==
    IF lng < BBOX.west \/ lng > BBOX.east \/ lat < BBOX.south \/ lat > BBOX.north
    THEN [out |-> TRUE, col |-> 0, row |-> 0]
    ELSE [out |-> FALSE,
          col |-> ((lng - BBOX.west) * meta.width) \div (BBOX.east - BBOX.west),
          row |-> ((BBOX.north - lat) * meta.height) \div (BBOX.north - BBOX.south)]

\* out is the null return; inside the box every numerator is non-negative,
\* so \div is Math.floor
latLngToPixel(lat, lng, meta) ==
    IF lng < BBOX.west \/ lng > BBOX.east \/ lat < BBOX.south \/ lat > BBOX.north
    THEN [out |-> TRUE, col |-> 0, row |-> 0]
    ELSE LET col == ((lng - BBOX.west) * meta.width) \div (BBOX.east - BBOX.west)
             row == ((BBOX.north - lat) * meta.height) \div (BBOX.north - BBOX.south)
         IN  [out |-> FALSE,
              col |-> Max(0, Min(col, meta.width - 1)),
              row |-> Max(0, Min(row, meta.height - 1))]

getPixelValue_Transposed(result, col, row) ==
    LET idx == col * result.width + row
        v   == IF idx >= 0 /\ idx < Len(result.data) THEN result.data[idx + 1] ELSE Undefined
    IN  IF ~isFinite(v) THEN NullValue ELSE v

getPixelValue(result, col, row) ==
    LET idx == row * result.width + col
        v   == IF idx >= 0 /\ idx < Len(result.data) THEN result.data[idx + 1] ELSE Undefined
    IN  IF ~isFinite(v) THEN NullValue ELSE v

\* ------------------------------------------------------------------------
\* collectPixelTimeseries (app.js 291-335)
\* ------------------------------------------------------------------------
IdleRun ==
    [status |-> "idle", indicator |-> "", col |-> 0, row |-> 0, values |-> <<>>, loaded |-> 0, queue |-> <<>>, waiting |-> {}, requested |-> {}, processed |-> {}]

Batch_All(queue) == queue

\* queue.splice(0, CONCURRENCY)
Batch(queue) == SubSeq(queue, 1, Min(poolSize, Len(queue)))

\* batch.map(processOne): every processOne runs up to its await, in order
RECURSIVE StartBatch(_, _)
StartBatch(rs, batch) ==
    IF batch = <<>> THEN rs
    ELSE LET m  == Head(batch)
             s1 == fetchAndRenderCog(rs.s, rs.r.indicator, m)
             r1 == [rs.r EXCEPT !.waiting = @ \cup {[m |-> m, h |-> s1.ret]},
                                !.requested = @ \cup {m}]
         IN  StartBatch([r |-> r1, s |-> s1], Tail(batch))

\* one turn of while (queue.length > 0), or the end of the function
NextWave(r, s) ==
    IF r.queue = <<>> THEN [r |-> [r EXCEPT !.status = "done"], s |-> s]
    ELSE LET batch == Batch(r.queue)
             r1    == [r EXCEPT !.queue = SubSeq(@, Len(batch) + 1, Len(@))]
         IN  StartBatch([r |-> r1, s |-> s], batch)

collectPixelTimeseries(s, ind, latlng) ==
    IF ~cogMeta.set THEN [r |-> [IdleRun EXCEPT !.status = "noMeta"], s |-> s]
    ELSE LET pixel == latLngToPixel(latlng.lat, latlng.lng, cogMeta)
         IN  IF pixel.out THEN [r |-> [IdleRun EXCEPT !.status = "outOfArea"], s |-> s]
             ELSE NextWave([IdleRun EXCEPT !.status = "running",
                                           !.indicator = ind,
                                           !.col = pixel.col,
                                           !.row = pixel.row,
                                           !.values = [i \in 1..totalMonths |-> NullValue],
                                           !.queue = [i \in 1..totalMonths |-> i - 1]], s)

processOneResume_SkipCount(r, w, proms) ==
    LET p == proms[w.h]
    IN  IF p.st = "fulfilled" /\ p.val.kind = "raster"
        THEN [r EXCEPT !.values[w.m + 1] = getPixelValue(p.val, r.col, r.row), !.loaded = @ + 1, !.processed = @ \cup {w.m}, !.waiting = @ \ {w}]
        ELSE [r EXCEPT !.processed = @ \cup {w.m}, !.waiting = @ \ {w}]

\* the part of processOne after its await
processOneResume(r, w, proms) ==
    LET p == proms[w.h]
        r1 == IF p.st = "fulfilled" /\ p.val.kind = "raster"
              THEN [r EXCEPT !.values[w.m + 1] = getPixelValue(p.val, r.col, r.row)]
              ELSE r
    IN  [r1 EXCEPT !.loaded = @ + 1, !.processed = @ \cup {w.m}, !.waiting = @ \ {w}]

\* ------------------------------------------------------------------------
\* renderCurrentMonth and prefetchAdjacentMonths (app.js 194-248)
\* ------------------------------------------------------------------------
NoRender == [ind |-> "", idx |-> 0, outcome |-> "none", prefetched |-> {}]
NoOverlay == [on |-> FALSE, ind |-> "", idx |-> 0, canvas |-> Composite(<<>>, "", <<0, 0>>)]

\* the part of renderCurrentMonth before its await
renderCurrentMonth(s, ind, index) ==
    LET s1 == fetchAndRenderCog(s, ind, index)
    IN  [s |-> s1, r |-> [ind |-> ind, idx |-> index, h |-> s1.ret, stage |-> "fetch"]]

\* for (delta = -radius; delta <= radius; delta++) with its two tests
PrefetchTargets(index) ==
    LET n == 2 * PREFETCH_RADIUS + 1
        all == [i \in 1..n |-> index + (i - 1 - PREFETCH_RADIUS)]
    IN  SelectSeq(all, LAMBDA x : x # index /\ x >= 0 /\ x < totalMonths)

RECURSIVE prefetchAdjacentMonths(_, _, _)
prefetchAdjacentMonths(sh, ind, targets) ==
    IF targets = <<>> THEN sh
    ELSE LET s1 == fetchAndRenderCog(sh.s, ind, Head(targets))
         IN  prefetchAdjacentMonths([s |-> s1, hs |-> sh.hs \cup {s1.ret}], ind, Tail(targets))

PrefetchAwaited_All(r, hs) ==
    LET RECURSIVE ToSeq(_)
        ToSeq(S) == IF S = {} THEN <<>> ELSE LET x == CHOOSE y \in S : TRUE IN <<[r EXCEPT !.h = x, !.stage = "prefetch"]>> \o ToSeq(S \ {x})
    IN  ToSeq(hs)

\* fetchAndRenderCog(...).catch(() => {}) is not awaited: the render
\* registers no continuation on the prefetched promises
PrefetchAwaited(r, hs) == <<>>

Remove(seq, i) == SubSeq(seq, 1, i - 1) \o SubSeq(seq, i + 1, Len(seq))

\* ------------------------------------------------------------------------
\* Initial state: initApp has reached loadAllSummaries (app.js 37-51, 173-186)
\* ------------------------------------------------------------------------
InitFor(months, evs, pools, shifts) ==
    /\ started = FALSE
    /\ indicator = "ndvi"
    /\ monthIndex = 0
    /\ totalMonths = months
    /\ selectedLatLng = NoPoint
    /\ chartMode = "summary"
    /\ cogMeta = NoMeta
    /\ cogOverlay = NoOverlay
    /\ mapLayers = {}
    /\ colorRange = [i \in Indicators |-> DefaultRange(i)]
    /\ errorLabel = ""
    /\ cogCache = <<>>
    /\ promises = <<>>
    /\ renders = <<>>
    /\ run = IdleRun
    /\ poolSize \in pools
    /\ serverShift \in shifts
    /\ events = 0
    /\ maxEvents = evs
    /\ loadCalls = [k \in {getCogCacheKey(i, m) : i \in Indicators, m \in 0..(months - 1)} |-> 0]
    /\ repeated = [k \in {getCogCacheKey(i, m) : i \in Indicators, m \in 0..(months - 1)} |-> FALSE]
    /\ observed = [k \in {getCogCacheKey(i, m) : i \in Indicators, m \in 0..(months - 1)} |-> {}]
    /\ epoch = 0
    /\ lastRender = NoRender
    /\ renderErrors = 0

\* the interactive runs start from two server contents that between them hold
\* every outcome for each indicator; the sampling runs start from all of them
Init == InitFor(TotalMonths, MaxEvents, {CONCURRENCY}, {0, 3})

InitSampler == InitFor(SamplerMonths, MaxSamplerEvents, {1, CONCURRENCY}, 0..(Len(OutcomeCycle) - 1))

\* ------------------------------------------------------------------------
\* Scheduling
\* ------------------------------------------------------------------------
\* a callback chained by invalidateCogCache whose promise has settled
ThenReady(h) ==
    /\ promises[h].parent # 0
    /\ promises[h].st = "pending"
    /\ Settled(promises, promises[h].parent)

MicrotaskReady ==
    \/ \E h \in 1..Len(promises) : ThenReady(h)
    \/ \E i \in 1..Len(renders) : Settled(promises, renders[i].h)
    \/ run.status = "running" /\ (run.waiting = {} \/ \E w \in run.waiting : Settled(promises, w.h))

UserEvent ==
    /\ started
    /\ ~MicrotaskReady
    /\ events < maxEvents
    /\ events' = events + 1

Commit(s) ==
    /\ cogCache' = s.cache
    /\ promises' = s.proms
    /\ loadCalls' = s.calls
    /\ repeated' = s.rep
    /\ observed' = s.obs
    /\ epoch' = s.epoch

\* a handler that ends with renderCurrentMonth()
CommitRender(s, ind, index) ==
    LET sr == renderCurrentMonth(s, ind, index)
    IN  /\ Commit(sr.s)
        /\ renders' = Append(renders, sr.r)

\* ------------------------------------------------------------------------
\* Handlers
\* ------------------------------------------------------------------------
\* initApp after loadAllSummaries (app.js 183-186, 639-641)
InitApp ==
    /\ ~started
    /\ started' = TRUE
    /\ monthIndex' = totalMonths - 1
    /\ CommitRender(Store, indicator, totalMonths - 1)
    /\ UNCHANGED <<indicator, totalMonths, selectedLatLng, chartMode, cogMeta, cogOverlay, mapLayers, colorRange, errorLabel, run, poolSize, serverShift, events, maxEvents, lastRender, renderErrors>>

\* slider "input" (app.js 409-415)
SliderInput(v) ==
    /\ UserEvent
    /\ monthIndex' = v
    /\ CommitRender(Store, indicator, v)
    /\ UNCHANGED <<started, indicator, totalMonths, selectedLatLng, chartMode, cogMeta, cogOverlay, mapLayers, colorRange, errorLabel, run, poolSize, serverShift, maxEvents, lastRender, renderErrors>>

\* btn-prev "click" (app.js 418-427)
BtnPrev ==
    /\ UserEvent
    /\ monthIndex > 0
    /\ monthIndex' = monthIndex - 1
    /\ CommitRender(Store, indicator, monthIndex - 1)
    /\ UNCHANGED <<started, indicator, totalMonths, selectedLatLng, chartMode, cogMeta, cogOverlay, mapLayers, colorRange, errorLabel, run, poolSize, serverShift, maxEvents, lastRender, renderErrors>>

\* btn-next "click" (app.js 430-439)
BtnNext ==
    /\ UserEvent
    /\ monthIndex < totalMonths - 1
    /\ monthIndex' = monthIndex + 1
    /\ CommitRender(Store, indicator, monthIndex + 1)
    /\ UNCHANGED <<started, indicator, totalMonths, selectedLatLng, chartMode, cogMeta, cogOverlay, mapLayers, colorRange, errorLabel, run, poolSize, serverShift, maxEvents, lastRender, renderErrors>>

\* indicator radio "change" (app.js 395-404); updateLegend rebuilds the
\* legend with an empty error label
IndicatorChange(ind) ==
    /\ UserEvent
    /\ ind # indicator
    /\ indicator' = ind
    /\ errorLabel' = ""
    /\ CommitRender(clearCache(Store), ind, monthIndex)
    /\ UNCHANGED <<started, monthIndex, totalMonths, selectedLatLng, chartMode, cogMeta, cogOverlay, mapLayers, colorRange, run, poolSize, serverShift, maxEvents, lastRender, renderErrors>>

RangeRejected_Strict(newMin, newMax) ==
    IF newMin = NaN \/ newMax = NaN THEN "nan" ELSE IF newMin > newMax THEN "order" ELSE ""

\* the two tests of applyRange (app.js 558-565): the message, "" if accepted
RangeRejected(newMin, newMax) ==
    IF newMin = NaN \/ newMax = NaN THEN "nan" ELSE IF newMin >= newMax THEN "order" ELSE ""

\* RENDERER.setRange(indicator, newMin, newMax)
setRange(ranges, ind, newMin, newMax) == [ranges EXCEPT ![ind] = <<newMin, newMax>>]

\* RENDERER.resetRange(indicator)
resetRange(ranges, ind) == [ranges EXCEPT ![ind] = DefaultRange(ind)]

\* applyRange (app.js 555-571)
ApplyRange(newMin, newMax) ==
    /\ UserEvent
    /\ IF RangeRejected(newMin, newMax) # ""
       THEN /\ errorLabel' = RangeRejected(newMin, newMax)
            /\ UNCHANGED <<colorRange, cogCache, promises, loadCalls, repeated, observed, epoch, renders>>
       ELSE /\ errorLabel' = ""
            /\ colorRange' = setRange(colorRange, indicator, newMin, newMax)
            /\ CommitRender(invalidateCogCache(Store), indicator, monthIndex)
    /\ UNCHANGED <<started, indicator, monthIndex, totalMonths, selectedLatLng, chartMode, cogMeta, cogOverlay, mapLayers, run, poolSize, serverShift, maxEvents, lastRender, renderErrors>>

\* reset button "click" (app.js 578-587)
ResetRange ==
    /\ UserEvent
    /\ errorLabel' = ""
    /\ colorRange' = resetRange(colorRange, indicator)
    /\ CommitRender(invalidateCogCache(Store), indicator, monthIndex)
    /\ UNCHANGED <<started, indicator, monthIndex, totalMonths, selectedLatLng, chartMode, cogMeta, cogOverlay, mapLayers, run, poolSize, serverShift, maxEvents, lastRender, renderErrors>>

\* onMapClick (app.js 370-388); the model holds one sampling run, so a click
\* or mode change is taken when no run is in progress
MapClick(pt) ==
    /\ UserEvent
    /\ run.status # "running"
    /\ selectedLatLng' = pt
    /\ IF chartMode = "pixel"
       THEN LET rs == collectPixelTimeseries(Store, indicator, pt)
            IN  run' = rs.r /\ Commit(rs.s)
       ELSE UNCHANGED <<run, cogCache, promises, loadCalls, repeated, observed, epoch>>
    /\ UNCHANGED <<started, indicator, monthIndex, totalMonths, chartMode, cogMeta, cogOverlay, mapLayers, colorRange, errorLabel, renders, poolSize, serverShift, maxEvents, lastRender, renderErrors>>

\* chart-mode radio "change" (app.js 442-453)
ChartModeChange(mode) ==
    /\ UserEvent
    /\ run.status # "running"
    /\ mode # chartMode
    /\ chartMode' = mode
    /\ IF mode = "pixel" /\ selectedLatLng # NoPoint
       THEN LET rs == collectPixelTimeseries(Store, indicator, selectedLatLng)
            IN  run' = rs.r /\ Commit(rs.s)
       ELSE UNCHANGED <<run, cogCache, promises, loadCalls, repeated, observed, epoch>>
    /\ UNCHANGED <<started, indicator, monthIndex, totalMonths, selectedLatLng, cogMeta, cogOverlay, mapLayers, colorRange, errorLabel, renders, poolSize, serverShift, maxEvents, lastRender, renderErrors>>

\* ------------------------------------------------------------------------
\* Network completion and continuations
\* ------------------------------------------------------------------------
FetchSettle_InOrder(h) ==
    /\ ~MicrotaskReady
    /\ promises[h].parent = 0
    /\ promises[h].st = "pending"
    /\ \A g \in 1..(h - 1) : promises[g].parent = 0 => Settled(promises, g)
    /\ LET o == loadAndRender(promises[h].ind, promises[h].idx, colorRange)
       IN  promises' = [promises EXCEPT ![h].st = o.st, ![h].val = o.val]
    /\ UNCHANGED <<started, indicator, monthIndex, totalMonths, selectedLatLng, chartMode, cogMeta, cogOverlay, mapLayers, colorRange, errorLabel, cogCache, renders, run, poolSize, serverShift, events, maxEvents, loadCalls, repeated, observed, epoch, lastRender, renderErrors>>

\* loadAndRender settles for the fetch started by fetchAndRenderCog
FetchSettle(h) ==
    /\ ~MicrotaskReady
    /\ promises[h].parent = 0
    /\ promises[h].st = "pending"
    /\ LET o == loadAndRender(promises[h].ind, promises[h].idx, colorRange)
       IN  promises' = [promises EXCEPT ![h].st = o.st, ![h].val = o.val]
    /\ UNCHANGED <<started, indicator, monthIndex, totalMonths, selectedLatLng, chartMode, cogMeta, cogOverlay, mapLayers, colorRange, errorLabel, cogCache, renders, run, poolSize, serverShift, events, maxEvents, loadCalls, repeated, observed, epoch, lastRender, renderErrors>>

\* the callback chained by invalidateCogCache runs (app.js 349-352); the
\* callbacks that are ready together were chained by one invalidateCogCache
\* and run in the order of their chaining
ThenSettle(h) ==
    /\ ThenReady(h)
    /\ \A g \in 1..(h - 1) : ~ThenReady(g)
    /\ LET o == ThenOutcome(promises[promises[h].parent], promises[h].ind, colorRange)
       IN  promises' = [promises EXCEPT ![h].st = o.st, ![h].val = o.val]
    /\ UNCHANGED <<started, indicator, monthIndex, totalMonths, selectedLatLng, chartMode, cogMeta, cogOverlay, mapLayers, colorRange, errorLabel, cogCache, renders, run, poolSize, serverShift, events, maxEvents, loadCalls, repeated, observed, epoch, lastRender, renderErrors>>

\* renderCurrentMonth after its await (app.js 197-234)
removeLayer_Keep(layers, overlay) == layers

\* if (state.cogOverlay) state.map.removeLayer(state.cogOverlay)
removeLayer(layers, overlay) == layers \ {overlay}

cogMetaAfter_Latest(meta, result) ==
    IF result.kind # "null"
    THEN [set |-> TRUE, width |-> result.width, height |-> result.height]
    ELSE meta

\* if (!state.cogMeta && result) state.cogMeta = { ...CONFIG.BBOX, width,
\* height }; the four edges are always those of BBOX
cogMetaAfter(meta, result) ==
    IF ~meta.set /\ result.kind # "null"
    THEN [set |-> TRUE, width |-> result.width, height |-> result.height]
    ELSE meta

RenderResume(i) ==
    LET r == renders[i]
        p == promises[r.h]
    IN  /\ Settled(promises, r.h)
        /\ IF p.st = "rejected"
           THEN /\ renders' = Remove(renders, i)
                /\ renderErrors' = renderErrors + 1
                /\ lastRender' = IF r.stage = "fetch" THEN [ind |-> r.ind, idx |-> r.idx, outcome |-> "failed", prefetched |-> {}] ELSE lastRender
                /\ UNCHANGED <<cogMeta, cogOverlay, mapLayers, cogCache, promises, loadCalls, repeated, observed, epoch>>
           ELSE IF r.stage # "fetch"
           THEN /\ renders' = Remove(renders, i)
                /\ UNCHANGED <<renderErrors, lastRender, cogMeta, cogOverlay, mapLayers, cogCache, promises, loadCalls, repeated, observed, epoch>>
           ELSE IF p.val.kind = "null"
           THEN /\ renders' = Remove(renders, i)
                /\ cogOverlay' = NoOverlay
                /\ mapLayers' = removeLayer(mapLayers, cogOverlay)
                /\ lastRender' = [ind |-> r.ind, idx |-> r.idx, outcome |-> "missing", prefetched |-> {}]
                /\ UNCHANGED <<renderErrors, cogMeta, cogCache, promises, loadCalls, repeated, observed, epoch>>
           ELSE LET targets == PrefetchTargets(monthIndex)
                    sh      == prefetchAdjacentMonths([s |-> Store, hs |-> {}], indicator, targets)
                    overlay == [on |-> TRUE, ind |-> r.ind, idx |-> r.idx, canvas |-> p.val.canvas]
                IN  /\ cogMeta' = cogMetaAfter(cogMeta, p.val)
                    /\ cogOverlay' = overlay
                    /\ mapLayers' = removeLayer(mapLayers, cogOverlay) \cup {overlay}
                    /\ Commit(sh.s)
                    /\ renders' = Remove(renders, i) \o PrefetchAwaited(r, sh.hs)
                    /\ lastRender' = [ind |-> r.ind, idx |-> r.idx, outcome |-> "shown", prefetched |-> {<<indicator, targets[j]>> : j \in 1..Len(targets)}]
                    /\ UNCHANGED renderErrors
        /\ UNCHANGED <<started, indicator, monthIndex, totalMonths, selectedLatLng, chartMode, colorRange, errorLabel, run, poolSize, serverShift, events, maxEvents>>

\* processOne after its await (app.js 313-321)
ProcessOneResume(w) ==
    /\ run.status = "running"
    /\ w \in run.waiting
    /\ Settled(promises, w.h)
    /\ run' = processOneResume(run, w, promises)
    /\ UNCHANGED <<started, indicator, monthIndex, totalMonths, selectedLatLng, chartMode, cogMeta, cogOverlay, mapLayers, colorRange, errorLabel, cogCache, promises, renders, poolSize, serverShift, events, maxEvents, loadCalls, repeated, observed, epoch, lastRender, renderErrors>>

\* Promise.all(batch.map(processOne)) resolved: the next turn of the loop,
\* or hideStatus and CHART.updatePixel (app.js 324-334)
WaveAdvance ==
    /\ run.status = "running"
    /\ run.waiting = {}
    /\ LET rs == NextWave(run, Store)
       IN  run' = rs.r /\ Commit(rs.s)
    /\ UNCHANGED <<started, indicator, monthIndex, totalMonths, selectedLatLng, chartMode, cogMeta, cogOverlay, mapLayers, colorRange, errorLabel, renders, poolSize, serverShift, events, maxEvents, lastRender, renderErrors>>

\* ------------------------------------------------------------------------
\* Specifications
\* ------------------------------------------------------------------------
Next ==
    \/ InitApp
    \/ \E v \in 0..(totalMonths - 1) : SliderInput(v)
    \/ BtnPrev
    \/ BtnNext
    \/ \E ind \in Indicators : IndicatorChange(ind)
    \/ \E mn \in RangeInputs, mx \in RangeInputs : ApplyRange(mn, mx)
    \/ ResetRange
    \/ \E pt \in Points : MapClick(pt)
    \/ \E mode \in {"summary", "pixel"} : ChartModeChange(mode)
    \/ \E h \in 1..Len(promises) : FetchSettle(h)
    \/ \E h \in 1..Len(promises) : ThenSettle(h)
    \/ \E i \in 1..Len(renders) : RenderResume(i)
    \/ \E w \in run.waiting : ProcessOneResume(w)
    \/ WaveAdvance

Spec == Init /\ [][Next]_vars

\* the pixel-sampling specification: start-up, chart-mode changes and map
\* clicks only; runs concurrent with slider, indicator and range events are
\* part of Spec
NextSampler ==
    \/ InitApp
    \/ \E pt \in Points : MapClick(pt)
    \/ \E mode \in {"summary", "pixel"} : ChartModeChange(mode)
    \/ \E h \in 1..Len(promises) : FetchSettle(h)
    \/ \E i \in 1..Len(renders) : RenderResume(i)
    \/ \E w \in run.waiting : ProcessOneResume(w)
    \/ WaveAdvance

SpecSampler == InitSampler /\ [][NextSampler]_vars

\* ------------------------------------------------------------------------
\* A sampling run that outlives an indicator switch
\* ------------------------------------------------------------------------
\* collectPixelTimeseries keeps the indicator it was called with, so the
\* later waves of a run that was started before an indicator switch insert
\* keys of the former indicator.  A second wave needs more than CONCURRENCY
\* months.  The behaviours start right after the click that starts the run:
\* initApp has shown the last month, the slider has been moved to month 4
\* and then to month 1, each render has prefetched its neighbours, every
\* fetch has settled, the chart has been switched to the per-point mode and
\* the user has clicked the centre of the box.
BrowsedMonths(months) == <<months - 1, 4, 1>>

EmptyStore(months) ==
    LET keys == {getCogCacheKey(i, m) : i \in Indicators, m \in 0..(months - 1)}
    IN  [cache |-> <<>>, proms |-> <<>>, calls |-> [k \in keys |-> 0], rep |-> [k \in keys |-> FALSE], obs |-> [k \in keys |-> {}], epoch |-> 0, ret |-> 0]

\* renderCurrentMonth of a month that holds a raster, with its prefetch
RECURSIVE Browse(_, _, _)
Browse(s, ind, visits) ==
    IF visits = <<>> THEN s
    ELSE LET s1 == fetchAndRenderCog(s, ind, Head(visits))
             sh == prefetchAdjacentMonths([s |-> s1, hs |-> {}], ind, PrefetchTargets(Head(visits)))
         IN  Browse(sh.s, ind, Tail(visits))

\* every fetch has settled
SettleAll(proms, ranges) ==
    [h \in DOMAIN proms |->
        LET o == loadAndRender(proms[h].ind, proms[h].idx, ranges)
        IN  [proms[h] EXCEPT !.st = o.st, !.val = o.val]]

ClickedPoint == [lat |-> 356100, lng |-> 1395625]

InitRecolor ==
    /\ started = TRUE
    /\ indicator = "ndvi"
    /\ monthIndex = 1
    /\ totalMonths = SamplerMonths
    /\ selectedLatLng = ClickedPoint
    /\ chartMode = "pixel"
    /\ colorRange = [i \in Indicators |-> DefaultRange(i)]
    /\ errorLabel = ""
    /\ serverShift = 2
    /\ poolSize = CONCURRENCY
    /\ LET s  == Browse(EmptyStore(SamplerMonths), "ndvi", BrowsedMonths(SamplerMonths))
           ps == SettleAll(s.proms, colorRange)
           first == ps[s.cache[getCogCacheKey("ndvi", SamplerMonths - 1)]].val
           overlay == [on |-> TRUE, ind |-> "ndvi", idx |-> 1, canvas |-> ps[s.cache[getCogCacheKey("ndvi", 1)]].val.canvas]
       IN  /\ cogMeta = [set |-> TRUE, width |-> first.width, height |-> first.height]
           /\ cogOverlay = overlay
           /\ mapLayers = {overlay}
           /\ lastRender = [ind |-> "ndvi", idx |-> 1, outcome |-> "shown", prefetched |-> {<<"ndvi", 0>>, <<"ndvi", 2>>}]
           /\ LET rs == collectPixelTimeseries([s EXCEPT !.proms = ps], "ndvi", ClickedPoint)
              IN  /\ run = rs.r
                  /\ cogCache = rs.s.cache
                  /\ promises = rs.s.proms
                  /\ loadCalls = rs.s.calls
                  /\ repeated = rs.s.rep
                  /\ observed = rs.s.obs
                  /\ epoch = rs.s.epoch
    /\ renders = <<>>
    /\ events = 0
    /\ maxEvents = MaxRecolorEvents
    /\ renderErrors = 0

\* the indicator radio buttons and a valid range edit, while the run goes on
NextRecolor ==
    \/ \E ind \in Indicators : IndicatorChange(ind)
    \/ ApplyRange(0, 5)
    \/ \E h \in 1..Len(promises) : FetchSettle(h)
    \/ \E h \in 1..Len(promises) : ThenSettle(h)
    \/ \E i \in 1..Len(renders) : RenderResume(i)
    \/ \E w \in run.waiting : ProcessOneResume(w)
    \/ WaveAdvance

SpecRecolor == InitRecolor /\ [][NextRecolor]_vars

TypeOK ==
    /\ monthIndex \in 0..(totalMonths - 1)
    /\ DOMAIN cogCache \subseteq KeySpace
    /\ \A k \in DOMAIN cogCache : cogCache[k] \in 1..Len(promises)

\* fair scheduling: a pending fetch eventually completes and a ready
\* continuation eventually runs
Microtask ==
    \/ \E h \in 1..Len(promises) : ThenSettle(h)
    \/ \E i \in 1..Len(renders) : RenderResume(i)
    \/ \E w \in run.waiting : ProcessOneResume(w)
    \/ WaveAdvance

Network == \E h \in 1..Len(promises) : FetchSettle(h)

SpecSamplerFair == InitSampler /\ [][NextSampler]_vars /\ WF_vars(Network) /\ WF_vars(Microtask)

\* ------------------------------------------------------------------------
\* latLngToPixel on its own (app.js 262-271)
\* ------------------------------------------------------------------------
\* raster sizes, and the coordinates of points of the box: its edges, the
\* points next to them, its centre and the lines in between
PixelGrids == {<<100, 80>>, <<2, 2>>, <<1, 1>>, <<3, 5>>, <<7, 4>>}
PixelLats == {BBOX.south + k * 40 : k \in 0..8} \cup {BBOX.south + 1, BBOX.north - 1}
PixelLngs == {BBOX.west + k * 39 : k \in 0..10} \cup {BBOX.west + 1, BBOX.east - 1}

InitPixel == InitFor(TotalMonths, 0, {CONCURRENCY}, {0})

\* the inputs: the size of a first raster and a clicked point
PixelInputs ==
    /\ ~started
    /\ run.status = "idle"
    /\ selectedLatLng = NoPoint
    /\ \E g \in PixelGrids : cogMeta' = [set |-> TRUE, width |-> g[1], height |-> g[2]]
    /\ \E lat \in PixelLats, lng \in PixelLngs : selectedLatLng' = [lat |-> lat, lng |-> lng]
    /\ UNCHANGED <<started, indicator, monthIndex, totalMonths, chartMode, cogOverlay, mapLayers, colorRange, errorLabel, cogCache, promises, renders, run, poolSize, serverShift, events, maxEvents, loadCalls, repeated, observed, epoch, lastRender, renderErrors>>

\* const pixel = latLngToPixel(latlng.lat, latlng.lng, state.cogMeta)
PixelOf ==
    /\ ~started
    /\ run.status = "idle"
    /\ selectedLatLng # NoPoint
    /\ LET pixel == latLngToPixel(selectedLatLng.lat, selectedLatLng.lng, cogMeta)
       IN  run' = [IdleRun EXCEPT !.status = IF pixel.out THEN "outOfArea" ELSE "mapped", !.col = pixel.col, !.row = pixel.row]
    /\ UNCHANGED <<started, indicator, monthIndex, totalMonths, selectedLatLng, chartMode, cogMeta, cogOverlay, mapLayers, colorRange, errorLabel, cogCache, promises, renders, poolSize, serverShift, events, maxEvents, loadCalls, repeated, observed, epoch, lastRender, renderErrors>>

NextPixel == PixelInputs \/ PixelOf

SpecPixel == InitPixel /\ [][NextPixel]_vars

\* ------------------------------------------------------------------------
\* valueToRGB on its own (renderer.js 90-107)
\* ------------------------------------------------------------------------
\* samples in units of 0.1 around the ends of the ranges, and the
\* non-finite ones
ColorSamples == ((-8)..12) \cup {95, 99, 100, 101, 117, 135, 136, 275, 449, 450, 451, 460} \cup {NaN, PosInf, NegInf}

\* the default range of the indicator and other ranges with min < max
ColorRanges(ind) == {DefaultRange(ind), <<0, 5>>, <<-3, 7>>, <<4, 5>>}

InitColor == InitFor(TotalMonths, 0, {CONCURRENCY}, {0})

\* the inputs: a raster of one sample, its indicator and the range
ColorInputs ==
    /\ ~started
    /\ run.status = "idle"
    /\ cogOverlay = NoOverlay
    /\ \E ind \in Indicators, v \in ColorSamples :
         \E range \in ColorRanges(ind) :
            cogOverlay' = [NoOverlay EXCEPT !.ind = ind, !.canvas = Composite(<<v>>, ind, range)]
    /\ UNCHANGED <<started, indicator, monthIndex, totalMonths, selectedLatLng, chartMode, cogMeta, mapLayers, colorRange, errorLabel, cogCache, promises, renders, run, poolSize, serverShift, events, maxEvents, loadCalls, repeated, observed, epoch, lastRender, renderErrors>>

\* const rgb = valueToRGB(data[i], colormap)
PaintOf ==
    /\ ~started
    /\ run.status = "idle"
    /\ cogOverlay # NoOverlay
    /\ LET c   == cogOverlay.canvas
           rgb == valueToRGB(c.data[1], [min |-> c.range[1], max |-> c.range[2], palette |-> Palette(c.indicator)])
       IN  run' = [IdleRun EXCEPT !.status = rgb.kind, !.values = rgb.rgb]
    /\ UNCHANGED <<started, indicator, monthIndex, totalMonths, selectedLatLng, chartMode, cogMeta, cogOverlay, mapLayers, colorRange, errorLabel, cogCache, promises, renders, poolSize, serverShift, events, maxEvents, loadCalls, repeated, observed, epoch, lastRender, renderErrors>>

NextColor == ColorInputs \/ PaintOf

SpecColor == InitColor /\ [][NextColor]_vars

\* ------------------------------------------------------------------------
\* Month indices and cache keys on their own (app.js 56-66, 85-100)
\* ------------------------------------------------------------------------
InitCalendar == InitFor(CalendarMonths, 0, {CONCURRENCY}, {0})

\* fetchAndRenderCog(ind, index) for any indicator and month, twice
LookupKey(ind, index) ==
    /\ ~started
    /\ Len(promises) < 2
    /\ Commit(fetchAndRenderCog(Store, ind, index))
    /\ UNCHANGED <<started, indicator, monthIndex, totalMonths, selectedLatLng, chartMode, cogMeta, cogOverlay, mapLayers, colorRange, errorLabel, renders, run, poolSize, serverShift, events, maxEvents, lastRender, renderErrors>>

NextCalendar == \E ind \in Indicators, index \in 0..(totalMonths - 1) : LookupKey(ind, index)

SpecCalendar == InitCalendar /\ [][NextCalendar]_vars

\* ------------------------------------------------------------------------
\* A request that never completes
\* ------------------------------------------------------------------------
\* There is no timeout (renderer.js 119): the request of one raster, the
\* one of HungMonth, never completes; every other request completes.
HungMonth == 5

HungFetch(h) == promises[h].idx = HungMonth /\ promises[h].ind = "ndvi"

NetworkOthers == \E h \in 1..Len(promises) : ~HungFetch(h) /\ FetchSettle(h)

NextHung ==
    \/ InitApp
    \/ \E pt \in Points : MapClick(pt)
    \/ \E mode \in {"summary", "pixel"} : ChartModeChange(mode)
    \/ \E h \in 1..Len(promises) : ~HungFetch(h) /\ FetchSettle(h)
    \/ \E i \in 1..Len(renders) : RenderResume(i)
    \/ \E w \in run.waiting : ProcessOneResume(w)
    \/ WaveAdvance

SpecHung == InitSampler /\ [][NextHung]_vars /\ WF_vars(NetworkOthers) /\ WF_vars(Microtask)

\* ------------------------------------------------------------------------
\* Properties
\* ------------------------------------------------------------------------
\* C1: between two cache clears RENDERER.loadAndRender is invoked at most
\* once per key, and any number of lookups of a key causes exactly one
\* invocation, whatever renders, prefetches, sampling runs and range
\* invalidations interleave.
C1_AtMostOneLoad ==
    \A k \in KeySpace : loadCalls[k] <= 1 /\ (observed[k] # {} => loadCalls[k] = 1)

\* several lookups of one key while its fetch is in flight, with an
\* invalidation in between, and one invocation
C1_Witness ==
    \E k \in DOMAIN cogCache :
        /\ repeated[k]
        /\ epoch >= 1
        /\ promises[Root(promises, cogCache[k])].st = "pending"
        /\ loadCalls[k] = 1

\* C2 as stated: all lookups of a key since the last clear return the same
\* cached handle.
C2_SameHandle ==
    \A k \in KeySpace : Cardinality({x[1] : x \in observed[k]}) <= 1

\* C2 amended: all lookups of a key since the last clear return handles
\* that derive from one and the same fetch; the handle itself is the same
\* for two lookups with no invalidateCogCache between them.
C2_SameFetch ==
    \A k \in KeySpace : \A a \in observed[k], b \in observed[k] :
        /\ Root(promises, a[1]) = Root(promises, b[1])
        /\ a[2] = b[2] => a[1] = b[1]

\* two lookups of one key returned different handles of the same fetch
C2_Witness ==
    \E k \in KeySpace : \E a \in observed[k], b \in observed[k] :
        /\ a[1] # b[1]
        /\ Root(promises, a[1]) = Root(promises, b[1])

\* C3: a chained cache entry whose fetch settled to a raster settles to a
\* raster with the same data, width and height, whether the fetch was
\* pending or settled when invalidateCogCache chained it.
C3_GridPreserved ==
    \A h \in 1..Len(promises) :
        (promises[h].parent # 0 /\ Settled(promises, h)) =>
            LET q == promises[Root(promises, h)]
            IN  (q.st = "fulfilled" /\ q.val.kind = "raster") =>
                    /\ promises[h].st = "fulfilled"
                    /\ promises[h].val.kind = "raster"
                    /\ promises[h].val.data = q.val.data
                    /\ promises[h].val.width = q.val.width
                    /\ promises[h].val.height = q.val.height

\* two settled chained entries, one chained while the fetch was pending and
\* one after it settled, the latter with a display image of another range
C3_Witness ==
    \E h1 \in 1..Len(promises), h2 \in 1..Len(promises) :
        /\ promises[h1].parent # 0 /\ promises[h1].early
        /\ promises[h2].parent # 0 /\ ~promises[h2].early
        /\ promises[h1].st = "fulfilled" /\ promises[h1].val.kind = "raster"
        /\ promises[h2].st = "fulfilled" /\ promises[h2].val.kind = "raster"
        /\ promises[h2].val.canvas # promises[Root(promises, h2)].val.canvas
        /\ promises[h2].val.data = promises[Root(promises, h2)].val.data

\* C4: a handler that runs invalidateCogCache keeps every cached key in the
\* cache and starts no fetch for it; the only fetch it can start is the one
\* of its own renderCurrentMonth, for a key that was not cached.
C4_NoRefetch ==
    [][epoch' = epoch + 1 =>
        /\ \A k \in DOMAIN cogCache : k \in DOMAIN cogCache' /\ loadCalls'[k] = loadCalls[k]
        /\ DOMAIN cogCache' = (DOMAIN cogCache) \cup {getCogCacheKey(indicator, monthIndex)}
        /\ \A k \in KeySpace : loadCalls'[k] # loadCalls[k] => (k = getCogCacheKey(indicator, monthIndex) /\ k \notin DOMAIN cogCache)]_vars

\* after an invalidation of a cache of several keys, looked up again
C4_Witness ==
    /\ epoch >= 1
    /\ Cardinality(DOMAIN cogCache) >= 2
    /\ \A k \in DOMAIN cogCache : loadCalls[k] = 1 /\ promises[cogCache[k]].parent # 0
    /\ repeated[getCogCacheKey(indicator, monthIndex)]

\* what the server's raster of month m holds at (col, row), null for a
\* missing month, a raster that cannot be drawn, or a non-finite sample
ExpectedSample(ind, m, col, row) ==
    LET o == ServerOutcome(ind, m)
        g == IF o = "gridA" THEN GridA ELSE IF o = "gridB" THEN GridB ELSE NoGrid
        i == row * g.width + col
    IN  IF o \in {"missing", "bad"} \/ i >= Len(g.data) THEN NullValue
        ELSE IF g.data[i + 1] \in {NaN, PosInf} THEN NullValue
        ELSE g.data[i + 1]

\* C5: a finished sampling run holds totalMonths values; position m is null
\* exactly for a missing month, a rejected lookup or a non-finite sample and
\* the sample at row*width+col otherwise, for pool size 1 and 8 alike.
C5_SampledSeries ==
    run.status = "done" =>
        /\ Len(run.values) = totalMonths
        /\ \A m \in 0..(totalMonths - 1) : run.values[m + 1] = ExpectedSample(run.indicator, m, run.col, run.row)

\* a finished run of pool size 8 over more than 8 months with a numeric
\* value, a missing month and a rejected lookup
C5_Witness ==
    /\ run.status = "done"
    /\ poolSize = CONCURRENCY
    /\ totalMonths > CONCURRENCY
    /\ \E m \in 0..(totalMonths - 1) : run.values[m + 1] # NullValue
    /\ \E m \in 0..(totalMonths - 1) : ServerOutcome(run.indicator, m) = "missing"
    /\ \E m \in 0..(totalMonths - 1) : ServerOutcome(run.indicator, m) = "bad"

\* C6: a sampling run has at most poolSize lookups in flight, and a month
\* is requested only when every month of the earlier waves is processed.
C6_Waves ==
    run.status = "running" =>
        /\ Cardinality(run.waiting) <= poolSize
        /\ \A m \in run.requested : \A m2 \in 0..(totalMonths - 1) :
               (m2 \div poolSize) < (m \div poolSize) => m2 \in run.processed

\* the second wave of a run of pool size 8 is in flight
C6_Witness ==
    /\ run.status = "running"
    /\ poolSize = CONCURRENCY
    /\ \E w \in run.waiting : w.m >= CONCURRENCY
    /\ Cardinality(run.processed) = CONCURRENCY

\* C7: the progress counter of a run is the number of months processed,
\* each once; a finished run has processed every month; and under fair
\* scheduling every started run finishes.
C7_BatchCompletes ==
    /\ [](run.status \in {"running", "done"} =>
            /\ run.loaded = Cardinality(run.processed)
            /\ run.processed \subseteq run.requested
            /\ (run.status = "done" => run.loaded = totalMonths /\ run.processed = 0..(totalMonths - 1)))
    /\ (run.status = "running") ~> (run.status = "done")

\* a finished run that met a missing month and a rejected lookup
C7_Witness ==
    /\ run.status = "done"
    /\ run.loaded = totalMonths
    /\ \E m \in run.processed : ServerOutcome(run.indicator, m) = "missing"
    /\ \E m \in run.processed : ServerOutcome(run.indicator, m) = "bad"

\* C8 as stated: the render that displayed (I, T) looked up exactly the keys
\* (I, T+d), d # 0, |d| <= PREFETCH_RADIUS, 0 <= T+d < totalMonths.
C8_PrefetchAroundDisplayed ==
    lastRender.outcome = "shown" =>
        lastRender.prefetched = {<<lastRender.ind, t>> : t \in {x \in (lastRender.idx - PREFETCH_RADIUS)..(lastRender.idx + PREFETCH_RADIUS) : x # lastRender.idx /\ x >= 0 /\ x < totalMonths}}

\* C9: a resumed renderCurrentMonth ends in that very step, with no
\* continuation left on a prefetched promise, and a render ends with an
\* exception only when the promise of its own lookup rejected.
C9_FireAndForget ==
    [][\A i \in 1..Len(renders) : RenderResume(i) =>
        /\ Len(renders') = Len(renders) - 1
        /\ renderErrors' # renderErrors => (renders[i].stage = "fetch" /\ promises[renders[i].h].st = "rejected")]_vars

\* a render has displayed and ended while one prefetched promise is pending
\* and another one is rejected
C9_Witness ==
    /\ lastRender.outcome = "shown"
    /\ renders = <<>>
    /\ \E x \in lastRender.prefetched : getCogCacheKey(x[1], x[2]) \in DOMAIN cogCache /\ promises[cogCache[getCogCacheKey(x[1], x[2])]].st = "pending"
    /\ \E x \in lastRender.prefetched : getCogCacheKey(x[1], x[2]) \in DOMAIN cogCache /\ promises[cogCache[getCogCacheKey(x[1], x[2])]].st = "rejected"

\* C10: applyRange with a non-numeric bound or min >= max changes neither
\* the range nor the cache, runs no invalidation and starts no fetch or
\* render; it only sets the error label.
C10_InvalidRangeRejected ==
    [][\A mn \in RangeInputs, mx \in RangeInputs :
        (ApplyRange(mn, mx) /\ (mn = NaN \/ mx = NaN \/ mn >= mx)) =>
            /\ UNCHANGED <<colorRange, cogCache, promises, loadCalls, repeated, epoch, renders>>
            /\ errorLabel' # ""]_vars

\* an edit with min >= max was refused after a valid edit
C10_Witness ==
    /\ errorLabel = "order"
    /\ colorRange[indicator] = <<0, 5>>
    /\ epoch = 1

\* C11 as stated: a range change under indicator I leaves every cache entry
\* whose key belongs to another indicator with the handle it had.
C11_OnlyOwnIndicator ==
    [][epoch' = epoch + 1 =>
        \A k \in DOMAIN cogCache : k[1] # indicator => cogCache'[k] = cogCache[k]]_vars

\* C11 amended: a range change chains a recoloring callback onto every cache
\* entry, whatever the indicator of its key, so every entry gets a new
\* handle on top of the one it had; the callback repaints with the range of
\* the key's own indicator, so an entry of another indicator than the
\* current one settles to the grid and the display image it had.
C11_EveryEntryChained ==
    [][/\ epoch' = epoch + 1 =>
            \A k \in DOMAIN cogCache :
                /\ k \in DOMAIN cogCache'
                /\ cogCache'[k] # cogCache[k]
                /\ promises'[cogCache'[k]].parent = cogCache[k]
                /\ promises'[cogCache'[k]].ind = k[1]
       /\ \A h \in 1..Len(promises) :
            (ThenSettle(h) /\ promises[h].ind # indicator /\ promises'[h].val.kind = "raster") =>
                /\ promises'[h].val.data = promises[promises[h].parent].val.data
                /\ promises'[h].val.canvas = promises[promises[h].parent].val.canvas]_vars

\* after a range change the cache holds an entry of another indicator than
\* the current one whose chained callback has produced a raster
C11_Witness ==
    /\ epoch >= 1
    /\ \E k \in DOMAIN cogCache :
        /\ k[1] # indicator
        /\ promises[cogCache[k]].parent # 0
        /\ promises[cogCache[k]].st = "fulfilled"
        /\ promises[cogCache[k]].val.kind = "raster"

\* C12: a chained cache entry whose fetch settled to the missing sentinel
\* is fulfilled with the missing sentinel itself, however many range
\* invalidations were chained onto it and whether the fetch was pending or
\* settled when they were.
C12_MissingStaysMissing ==
    \A h \in 1..Len(promises) :
        (promises[h].parent # 0 /\ Settled(promises, h)) =>
            LET q == promises[Root(promises, h)]
            IN  (q.st = "fulfilled" /\ q.val.kind = "null") =>
                    (promises[h].st = "fulfilled" /\ promises[h].val = NullResult)

\* the entry of a missing month after two range invalidations, the first
\* chained while the fetch was pending
C12_Witness ==
    \E h \in 1..Len(promises) :
        /\ promises[h].parent # 0
        /\ promises[promises[h].parent].parent # 0
        /\ promises[promises[h].parent].early
        /\ promises[h].st = "fulfilled"
        /\ promises[h].val = NullResult
        /\ h \in {cogCache[k] : k \in DOMAIN cogCache}

\* C13: the indicator switch leaves in the cache only the entry of its own
\* render, a fresh pending fetch even when that key was cached before; no
\* other step puts a promise into the cache that is neither in it nor newly
\* created, and the settlement of a promise changes no cache entry.
C13_SwitchClears ==
    [][/\ indicator' # indicator =>
            LET key == getCogCacheKey(indicator', monthIndex')
            IN  /\ DOMAIN cogCache' = {key}
                /\ Len(promises') = Len(promises) + 1
                /\ cogCache'[key] = Len(promises')
                /\ promises'[Len(promises')].parent = 0
                /\ promises'[Len(promises')].st = "pending"
                /\ loadCalls' = [k \in DOMAIN loadCalls |-> IF k = key THEN 1 ELSE 0]
       /\ indicator' = indicator =>
            \A k \in DOMAIN cogCache' :
                cogCache'[k] \in {cogCache[j] : j \in DOMAIN cogCache} \cup ((Len(promises) + 1)..Len(promises'))
       /\ (promises' # promises /\ Len(promises') = Len(promises)) => cogCache' = cogCache]_vars

\* the fetch of a render that was started before a clear has settled after
\* it, while the cache holds a newer fetch of the same key
C13_Witness ==
    \E i \in 1..Len(renders) :
        LET h == renders[i].h
        IN  /\ promises[h].parent = 0
            /\ Settled(promises, h)
            /\ promises[h].key \in DOMAIN cogCache
            /\ Root(promises, cogCache[promises[h].key]) > h
            /\ loadCalls[promises[h].key] = 1

\* C14: the fetch of a month whose raster cannot be fetched or decoded is
\* fulfilled with the missing sentinel, never rejected; while the key stays
\* cached it has one loadAndRender call, and every handle that a lookup of
\* the key returned settles to the missing sentinel.
C14_FailureCachedAsMissing ==
    /\ \A h \in 1..Len(promises) :
            (promises[h].parent = 0 /\ Settled(promises, h) /\ ServerOutcome(promises[h].ind, promises[h].idx) = "missing") =>
                (promises[h].st = "fulfilled" /\ promises[h].val = NullResult)
    /\ \A k \in DOMAIN cogCache :
            LET q == promises[Root(promises, cogCache[k])]
            IN  ServerOutcome(q.ind, q.idx) = "missing" =>
                    /\ loadCalls[k] = 1
                    /\ \A x \in observed[k] :
                           Settled(promises, x[1]) => (promises[x[1]].st = "fulfilled" /\ promises[x[1]].val = NullResult)

\* a month that cannot be fetched was rendered as missing and looked up
\* again, with one loadAndRender call
C14_Witness ==
    /\ lastRender.outcome = "missing"
    /\ renders = <<>>
    /\ LET k == getCogCacheKey(lastRender.ind, lastRender.idx)
       IN  /\ k \in DOMAIN cogCache
           /\ repeated[k]
           /\ loadCalls[k] = 1
           /\ ServerOutcome(lastRender.ind, lastRender.idx) = "missing"

\* C15: while the request of one key never completes, every promise that a
\* lookup of another key returned (to a render, a prefetch or an item of a
\* sampling run) eventually settles and the continuations that wait for it
\* run: again and again every promise but the hung one is settled and no
\* continuation is left to run.
C15_OthersSettle ==
    []<>(/\ ~MicrotaskReady
         /\ \A h \in 1..Len(promises) : ~HungFetch(Root(promises, h)) => Settled(promises, h))

\* a sampling run of pool size 8 is stuck on the hung month alone: every
\* other month of its wave is processed, and the render and its prefetch
\* have settled
C15_Witness ==
    /\ run.status = "running"
    /\ poolSize = CONCURRENCY
    /\ \A w \in run.waiting : w.m = HungMonth /\ ~Settled(promises, w.h)
    /\ run.waiting # {}
    /\ run.processed = (0..(CONCURRENCY - 1)) \ {HungMonth}
    /\ lastRender.outcome = "shown"
    /\ \A h \in 1..Len(promises) : ~HungFetch(h) => Settled(promises, h)

\* the point lies outside the configured bounding box
OutsideBox(pt) ==
    pt.lng < BBOX.west \/ pt.lng > BBOX.east \/ pt.lat < BBOX.south \/ pt.lat > BBOX.north

\* C16: a click or a switch to the per-point chart that calls
\* collectPixelTimeseries with a point outside the bounding box, or before
\* any raster has set the spatial metadata, reports the fault and leaves
\* the cache, the promises and the number of loadAndRender calls unchanged.
C16_FaultHasNoCacheEffect ==
    [][/\ \A pt \in Points :
            (MapClick(pt) /\ chartMode = "pixel" /\ (~cogMeta.set \/ OutsideBox(pt))) =>
                /\ UNCHANGED <<cogCache, promises, loadCalls, observed>>
                /\ run'.status = IF ~cogMeta.set THEN "noMeta" ELSE "outOfArea"
       /\ (ChartModeChange("pixel") /\ selectedLatLng # NoPoint /\ (~cogMeta.set \/ OutsideBox(selectedLatLng))) =>
                /\ UNCHANGED <<cogCache, promises, loadCalls, observed>>
                /\ run'.status = IF ~cogMeta.set THEN "noMeta" ELSE "outOfArea"]_vars

\* a sampling of a point west of the box was refused while the cache holds
\* entries
C16_Witness ==
    /\ run.status = "outOfArea"
    /\ selectedLatLng.lng < BBOX.west
    /\ cogMeta.set
    /\ DOMAIN cogCache # {}

\* C17: for a point of the bounding box, edges included, latLngToPixel
\* returns the column and the row of the cell that holds the point, the last
\* column for the east edge and the last row for the south edge: 0 <= col <
\* width, 0 <= row < height, row 0 at the north edge, and (50, 40) for the
\* centre of a 100 x 80 grid.
C17_PixelOfPoint ==
    (selectedLatLng # NoPoint /\ run.status # "idle") =>
        LET w == cogMeta.width
            h == cogMeta.height
            x == (selectedLatLng.lng - BBOX.west) * w
            y == (BBOX.north - selectedLatLng.lat) * h
            dx == BBOX.east - BBOX.west
            dy == BBOX.north - BBOX.south
        IN  /\ run.status = "mapped"
            /\ 0 <= run.col /\ run.col < w
            /\ 0 <= run.row /\ run.row < h
            /\ \/ run.col * dx <= x /\ x < (run.col + 1) * dx
               \/ selectedLatLng.lng = BBOX.east /\ run.col = w - 1
            /\ \/ run.row * dy <= y /\ y < (run.row + 1) * dy
               \/ selectedLatLng.lat = BBOX.south /\ run.row = h - 1
            /\ selectedLatLng.lat = BBOX.north => run.row = 0
            /\ (w = 100 /\ h = 80 /\ 2 * selectedLatLng.lng = BBOX.west + BBOX.east /\ 2 * selectedLatLng.lat = BBOX.south + BBOX.north) =>
                    (run.col = 50 /\ run.row = 40)

\* the south-east corner of the box on the 100 x 80 grid is mapped to the
\* last column and the last row
C17_Witness ==
    /\ run.status = "mapped"
    /\ cogMeta.width = 100 /\ cogMeta.height = 80
    /\ selectedLatLng = [lat |-> BBOX.south, lng |-> BBOX.east]
    /\ run.col = 99 /\ run.row = 79

\* C18: the year and month of a month index give the index back through
\* (year - START_YEAR) * 12 + (month - START_MONTH), the month is in 1..12,
\* and two lookups of different (indicator, index) pairs get different
\* cache keys, as the model's key and as the formatted key string.
C18_MonthRoundTrip ==
    /\ \A h \in 1..Len(promises) :
            LET p == promises[h]
            IN  /\ p.key[3] \in 1..12
                /\ rowIndex(p.key[2], p.key[3]) = p.idx
                /\ p.key[1] = p.ind
    /\ \A h1 \in 1..Len(promises), h2 \in 1..Len(promises) :
            <<promises[h1].ind, promises[h1].idx>> # <<promises[h2].ind, promises[h2].idx>> =>
                /\ promises[h1].key # promises[h2].key
                /\ KeyString(promises[h1].ind, promises[h1].idx) # KeyString(promises[h2].ind, promises[h2].idx)

\* the cache holds the keys of December of the first year and of January of
\* the next one for the same indicator
C18_Witness ==
    /\ Cardinality(DOMAIN cogCache) = 2
    /\ <<"ndvi", START_YEAR, 12>> \in DOMAIN cogCache
    /\ <<"ndvi", START_YEAR + 1, 1>> \in DOMAIN cogCache
    /\ promises[cogCache[<<"ndvi", START_YEAR, 12>>]].idx = 11
    /\ promises[cogCache[<<"ndvi", START_YEAR + 1, 1>>]].idx = 12

\* C19: valueToRGB gives null for NaN, +Infinity and -Infinity; the first
\* palette stop for a value at or below the range's min, the last stop for
\* a value at or above its max; and for a value in between a colour whose
\* channels are within one half of the straight line between two adjacent
\* stops that bracket the value; no palette entry outside the palette is
\* read.
C19_ColorOfSample ==
    (cogOverlay # NoOverlay /\ run.status # "idle") =>
        LET c    == cogOverlay.canvas
            v    == c.data[1]
            lo   == c.range[1]
            hi   == c.range[2]
            pal  == Palette(c.indicator)
            n    == Len(pal) - 1
            den  == hi - lo
        IN  /\ run.status # "throws"
            /\ v \in {NaN, PosInf, NegInf} <=> run.status = "null"
            /\ v \notin {NaN, PosInf, NegInf} =>
                /\ run.status = "rgb"
                /\ v <= lo => run.values = pal[1]
                /\ v >= hi => run.values = pal[n + 1]
                /\ (lo < v /\ v < hi) =>
                        \E j \in 1..n :
                            /\ (j - 1) * den <= (v - lo) * n
                            /\ (v - lo) * n <= j * den
                            /\ \A k \in 1..3 :
                                  LET line == pal[j][k] * den + (pal[j + 1][k] - pal[j][k]) * ((v - lo) * n - (j - 1) * den)
                                  IN  /\ 2 * (run.values[k] * den - line) <= den
                                      /\ 2 * (line - run.values[k] * den) <= den

\* a value strictly between two stops of the default ndvi range has been
\* painted with a colour that is neither of the two stops
C19_Witness ==
    /\ run.status = "rgb"
    /\ cogOverlay.canvas.indicator = "ndvi"
    /\ cogOverlay.canvas.range = DefaultRange("ndvi")
    /\ cogOverlay.canvas.data = <<0>>
    /\ run.values = <<239, 98, 62>>

\* C20: state.cogMeta is absent as long as no render has obtained a raster,
\* is set by the first render that obtains one, with the width and height
\* of that raster, and no later step (render, indicator switch, range
\* edit, sampling run) changes it.
C20_MetaSetOnce ==
    [][/\ cogMeta.set => cogMeta' = cogMeta
       /\ ~cogMeta'.set => (cogOverlay' = NoOverlay /\ lastRender'.outcome # "shown")
       /\ (~cogMeta.set /\ cogMeta'.set) =>
            /\ lastRender'.outcome = "shown"
            /\ renders' # renders
            /\ LET grid == IF ServerOutcome(lastRender'.ind, lastRender'.idx) = "gridA" THEN GridA ELSE GridB
               IN  /\ ServerOutcome(lastRender'.ind, lastRender'.idx) \in {"gridA", "gridB"}
                   /\ cogMeta' = [set |-> TRUE, width |-> grid.width, height |-> grid.height]]_vars

\* the metadata came from a 2 x 2 raster and the raster on the map now is
\* the 1 x 1 one
C20_Witness ==
    /\ cogMeta = [set |-> TRUE, width |-> GridA.width, height |-> GridA.height]
    /\ cogOverlay.on
    /\ cogOverlay.canvas.data = GridB.data
    /\ lastRender.outcome = "shown"

\* the fetch of key k that started last
LatestFetch(k) ==
    CHOOSE h \in 1..Len(promises) :
        /\ promises[h].parent = 0 /\ promises[h].key = k
        /\ \A g \in (h + 1)..Len(promises) : ~(promises[g].parent = 0 /\ promises[g].key = k)

\* C21: in every state in which a fetch of key k that started after the
\* last clear is in flight, the cache holds an entry for k, and that entry
\* derives from this fetch: the miss test and the insertion are one step.
C21_InFlightIsCached ==
    \A k \in KeySpace :
        (loadCalls[k] > 0 /\ promises[LatestFetch(k)].st = "pending") =>
            /\ k \in DOMAIN cogCache
            /\ Root(promises, cogCache[k]) = LatestFetch(k)

\* a fetch started after the clear of an indicator switch is in flight and
\* cached, while the fetch that started before the clear is in flight too
\* and has no entry
C21_Witness ==
    \E k \in DOMAIN cogCache, h \in 1..Len(promises) :
        /\ loadCalls[k] = 1
        /\ promises[Root(promises, cogCache[k])].st = "pending"
        /\ promises[h].parent = 0
        /\ promises[h].st = "pending"
        /\ promises[h].key \notin DOMAIN cogCache

\* C22: a cache entry whose promise, the last of its chain, has settled to
\* a raster holds the grid that its fetch decoded and the display image
\* that this grid gives with the range its indicator has now, whether the
\* fetch was pending or settled when the range was changed and however
\* many times it was changed.
C22_SettledEntryHasLatestRange ==
    \A k \in DOMAIN cogCache :
        LET p == promises[cogCache[k]]
            f == promises[Root(promises, cogCache[k])]
            o == ServerOutcome(f.ind, f.idx)
        IN  (p.st = "fulfilled" /\ p.val.kind = "raster") =>
                /\ o \in {"gridA", "gridB"}
                /\ p.val.data = (IF o = "gridA" THEN GridA ELSE GridB).data
                /\ p.val.data = f.val.data
                /\ p.val.canvas = Composite(p.val.data, k[1], colorRange[k[1]])

\* an entry whose fetch was pending at a first valid range change and had
\* settled at a second one is settled with the range of the second, which
\* is not the one it was painted with in between
C22_Witness ==
    /\ epoch >= 2
    /\ colorRange[indicator] = DefaultRange(indicator)
    /\ \E k \in DOMAIN cogCache :
         LET p == promises[cogCache[k]]
         IN  /\ k[1] = indicator
             /\ p.st = "fulfilled" /\ p.val.kind = "raster"
             /\ p.parent # 0 /\ ~p.early
             /\ promises[p.parent].parent # 0 /\ promises[p.parent].early
             /\ promises[p.parent].val.canvas # p.val.canvas

\* C23: once every fetch and every continuation of overlapping
\* renderCurrentMonth calls has completed, the overlay on the map is the
\* raster of the current state.indicator and state.monthIndex, and there
\* is no overlay if that month is missing.
C23_OverlayIsCurrent ==
    (/\ started
     /\ renders = <<>>
     /\ ~MicrotaskReady
     /\ \A h \in 1..Len(promises) : Settled(promises, h)) =>
        LET o == ServerOutcome(indicator, monthIndex)
        IN  /\ o = "missing" => cogOverlay = NoOverlay
            /\ o \in {"gridA", "gridB"} =>
                  cogOverlay = [on |-> TRUE, ind |-> indicator, idx |-> monthIndex,
                                canvas |-> Composite((IF o = "gridA" THEN GridA ELSE GridB).data, indicator, colorRange[indicator])]

\* C24: in every state the map holds at most one raster overlay, the one
\* that state.cogOverlay refers to, and none when state.cogOverlay is null:
\* a render removes the overlay of the render before it in the step in
\* which it adds its own.
C24_OneOverlay ==
    /\ Cardinality(mapLayers) <= 1
    /\ mapLayers = (IF cogOverlay.on THEN {cogOverlay} ELSE {})

\* a second raster, of another month and size than the first one shown, is
\* the only overlay of the map while another render is still waiting
C24_Witness ==
    /\ mapLayers = {cogOverlay}
    /\ cogOverlay.on
    /\ cogMeta.set
    /\ Len(cogOverlay.canvas.data) # cogMeta.width * cogMeta.height
    /\ \E i \in 1..Len(renders) : renders[i].stage = "fetch"

\* C25: for every month of a sampling run whose lookup gave a raster, the
\* index row * result.width + col that getPixelValue reads lies inside that
\* raster: 0 <= index < result.width * result.height.
C25_IndexInsideGrid ==
    run.status \in {"running", "done"} =>
        \A m \in run.processed :
            LET o == ServerOutcome(run.indicator, m)
                g == IF o = "gridA" THEN GridA ELSE GridB
                i == run.row * g.width + run.col
            IN  o \in {"gridA", "gridB"} => (0 <= i /\ i < g.width * g.height)

====
